---- MODULE Spec2Model ----
(***************************************************************************)
(* Model of brainstorming.py (the DfX analysis script): the response       *)
(* sanitizer clean_json_response, the three DfXAnalyzer operations and the *)
(* session run main().                                                     *)
(*                                                                         *)
(* Python str values are TLA+ strings; indices are 0-based as in Python.   *)
(* A call's outcome is a record: [raised |-> FALSE, value |-> v] for a     *)
(* normal return, [raised |-> TRUE, exc |-> e] for a raised exception.     *)
(***************************************************************************)
EXTENDS Integers, Sequences, FiniteSets, TLC

(***************************************************************************)
(* Bounds of the model.                                                    *)
(***************************************************************************)
MaxRuns == 2
MaxPieces == 5

(***************************************************************************)
(* Python str primitives used by the source.                               *)
(***************************************************************************)
Return(v) == [raised |-> FALSE, value |-> v]
Raise(e) == [raised |-> TRUE, exc |-> e]

\* the element of a singleton: Only({F(x) : x \in {v}}) is F(x) with x = v, the
\* value of one step of a function body handed to the steps after it
Only(S) == CHOOSE r \in S : TRUE

\* s[i:i+1]
CharAt(s, i) == IF 0 <= i /\ i < Len(s) THEN SubSeq(s, i + 1, i + 1) ELSE ""

\* s[a:b] for 0 <= a, 0 <= b
Slice(s, a, b) ==
  LET hi == IF b > Len(s) THEN Len(s) ELSE b
  IN IF a >= hi THEN "" ELSE SubSeq(s, a + 1, hi)

\* s.startswith(p, i)
StartsWithAt(s, p, i) == i + Len(p) <= Len(s) /\ Slice(s, i, i + Len(p)) = p

Min(S) == CHOOSE m \in S : \A x \in S : m <= x
Max(S) == CHOOSE m \in S : \A x \in S : m >= x

\* the offsets i >= from at which c occurs in s
Occurrences(s, c, from) == {i \in from..(Len(s) - Len(c)) : StartsWithAt(s, c, i)}

\* s.find(c, from)
FindFrom(s, c, from) ==
  IF Occurrences(s, c, from) = {} THEN -1 ELSE Min(Occurrences(s, c, from))

\* s.find(c)
Find(s, c) == FindFrom(s, c, 0)

\* s.rfind(c)
RFind(s, c) == IF Occurrences(s, c, 0) = {} THEN -1 ELSE Max(Occurrences(s, c, 0))

\* new between every two characters of s, before the first and after the last
RECURSIVE Interleave(_, _, _)
Interleave(s, new, i) ==
  IF i >= Len(s) THEN new ELSE new \o CharAt(s, i) \o Interleave(s, new, i + 1)

\* s.replace(old, new): every non-overlapping occurrence, left to right
RECURSIVE Replace(_, _, _)
Replace(s, old, new) ==
  IF old = "" THEN (IF new = "" THEN s ELSE Interleave(s, new, 0))
  ELSE IF Find(s, old) = -1 THEN s
  ELSE Slice(s, 0, Find(s, old)) \o new
       \o Replace(Slice(s, Find(s, old) + Len(old), Len(s)), old, new)

Whitespace == {" ", "\n", "\t", "\r"}

RECURSIVE LStrip(_)
LStrip(s) ==
  IF Len(s) > 0 /\ CharAt(s, 0) \in Whitespace THEN LStrip(Slice(s, 1, Len(s))) ELSE s

RECURSIVE RStrip(_)
RStrip(s) ==
  IF Len(s) > 0 /\ CharAt(s, Len(s) - 1) \in Whitespace
  THEN RStrip(Slice(s, 0, Len(s) - 1)) ELSE s

\* s.strip()
Strip(s) == RStrip(LStrip(s))

\* sub in s
Contains(s, sub) == Find(s, sub) # -1

(***************************************************************************)
(* clean_json_response                                                     *)
(***************************************************************************)
ValueError(msg) == [type |-> "ValueError", msg |-> msg]

clean_json_response(text) ==
  LET start == Find(text, "{")
      end == RFind(text, "}")
  IN IF start = -1 \/ end = -1
     THEN Raise(ValueError("No valid JSON object found in response"))
     ELSE LET json_str == Slice(text, start, end + 1)
              json_str2 == Replace(Replace(json_str, "json", ""), "", "")
          IN Return(Strip(json_str2))

(***************************************************************************)
(* Python values produced by json.loads.  Each value carries its Python    *)
(* type: str, list (a sequence of values), dict (the pairs <<key, value>>  *)
(* in insertion order, keys unique), bool, None.                           *)
(***************************************************************************)
PyStr(s) == [t |-> "str", v |-> s]
PyList(items) == [t |-> "list", v |-> items]
PyDict(pairs) == [t |-> "dict", v |-> pairs]
PyBool(b) == [t |-> "bool", v |-> b]
None == [t |-> "None"]

DictKeys(d) == [i \in 1..Len(d.v) |-> d.v[i][1]]
DictHas(d, k) == \E i \in 1..Len(d.v) : d.v[i][1] = k
DictGet(d, k) == d.v[CHOOSE i \in 1..Len(d.v) : d.v[i][1] = k][2]

\* d[k] = v on a dict: a present key keeps its position, a new key goes last
DictSet(d, k, v) ==
  IF DictHas(d, k)
  THEN PyDict([i \in 1..Len(d.v) |-> IF d.v[i][1] = k THEN <<k, v>> ELSE d.v[i]])
  ELSE PyDict(Append(d.v, <<k, v>>))

KeyError(k) == [type |-> "KeyError", msg |-> "'" \o k \o "'"]
TypeError(msg) == [type |-> "TypeError", msg |-> msg]

\* obj[k] with k a str
Subscript(obj, k) ==
  IF obj.t = "dict"
  THEN (IF DictHas(obj, k) THEN Return(DictGet(obj, k)) ELSE Raise(KeyError(k)))
  ELSE IF obj.t = "list"
  THEN Raise(TypeError("list indices must be integers or slices, not str"))
  ELSE IF obj.t = "str"
  THEN Raise(TypeError("string indices must be integers"))
  ELSE Raise(TypeError("object is not subscriptable"))

(***************************************************************************)
(* json.loads: the standard decoder on texts without numbers and without   *)
(* backslash escapes.  A parse step yields [ok, val, end] or [ok, msg,     *)
(* pos]; end and pos are 0-based offsets into the text.                    *)
(***************************************************************************)
ParseOk(val, end) == [ok |-> TRUE, val |-> val, end |-> end]
ParseErr(msg, pos) == [ok |-> FALSE, msg |-> msg, pos |-> pos]

RECURSIVE SkipWs(_, _)
SkipWs(s, i) == IF CharAt(s, i) \in Whitespace THEN SkipWs(s, i + 1) ELSE i

ControlChars == {"\n", "\t", "\r"}

\* position of the first control character of s[a:b], or -1
FindControl(s, a, b) ==
  LET at == {i \in a..(b - 1) : CharAt(s, i) \in ControlChars}
  IN IF at = {} THEN -1 ELSE Min(at)

\* the string whose opening quote is at end - 1
scanstring(s, end) ==
  LET close == FindFrom(s, "\"", end)
      ctl == FindControl(s, end, IF close = -1 THEN Len(s) ELSE close)
  IN IF ctl # -1 THEN ParseErr("Invalid control character at", ctl)
     ELSE IF close = -1 THEN ParseErr("Unterminated string starting at", end - 1)
     ELSE ParseOk(PyStr(Slice(s, end, close)), close + 1)

RECURSIVE scan_once(_, _)
RECURSIVE ObjectMembers(_, _, _)
RECURSIVE ArrayElements(_, _, _)

\* the object whose opening brace is at end - 1
JSONObject(s, end) ==
  LET e1 == IF CharAt(s, end) # "\"" THEN SkipWs(s, end) ELSE end
  IN IF CharAt(s, e1) = "}" THEN ParseOk(PyDict(<<>>), e1 + 1)
     ELSE IF CharAt(s, e1) # "\""
     THEN ParseErr("Expecting property name enclosed in double quotes", e1)
     ELSE ObjectMembers(s, e1 + 1, PyDict(<<>>))

\* the members of an object from the first character of a key on
ObjectMembers(s, end, pairs) ==
  LET key == scanstring(s, end)
  IN IF ~key.ok THEN key
     ELSE
     LET e1 == SkipWs(s, key.end)
     IN IF CharAt(s, e1) # ":" THEN ParseErr("Expecting ':' delimiter", e1)
        ELSE
        LET value == scan_once(s, SkipWs(s, e1 + 1))
        IN IF ~value.ok THEN value
           ELSE
           LET pairs2 == DictSet(pairs, key.val.v, value.val)
               e2 == SkipWs(s, value.end)
               e3 == SkipWs(s, e2 + 1)
           IN IF CharAt(s, e2) = "}" THEN ParseOk(pairs2, e2 + 1)
              ELSE IF CharAt(s, e2) # "," THEN ParseErr("Expecting ',' delimiter", e2)
              ELSE IF CharAt(s, e3) # "\""
              THEN ParseErr("Expecting property name enclosed in double quotes", e3)
              ELSE ObjectMembers(s, e3 + 1, pairs2)

\* the array whose opening bracket is at end - 1
JSONArray(s, end) ==
  LET e1 == SkipWs(s, end)
  IN IF CharAt(s, e1) = "]" THEN ParseOk(PyList(<<>>), e1 + 1)
     ELSE ArrayElements(s, e1, <<>>)

ArrayElements(s, end, values) ==
  LET value == scan_once(s, end)
  IN IF ~value.ok THEN value
     ELSE
     LET values2 == Append(values, value.val)
         e1 == SkipWs(s, value.end)
     IN IF CharAt(s, e1) = "]" THEN ParseOk(PyList(values2), e1 + 1)
        ELSE IF CharAt(s, e1) # "," THEN ParseErr("Expecting ',' delimiter", e1)
        ELSE ArrayElements(s, SkipWs(s, e1 + 1), values2)

scan_once(s, idx) ==
  LET nextchar == CharAt(s, idx)
  IN IF nextchar = "\"" THEN scanstring(s, idx + 1)
     ELSE IF nextchar = "{" THEN JSONObject(s, idx + 1)
     ELSE IF nextchar = "[" THEN JSONArray(s, idx + 1)
     ELSE IF StartsWithAt(s, "null", idx) THEN ParseOk(None, idx + 4)
     ELSE IF StartsWithAt(s, "true", idx) THEN ParseOk(PyBool(TRUE), idx + 4)
     ELSE IF StartsWithAt(s, "false", idx) THEN ParseOk(PyBool(FALSE), idx + 5)
     ELSE ParseErr("Expecting value", idx)

\* the number of occurrences of c in s[0:pos]
CountBefore(s, c, pos) == Cardinality({i \in 0..(pos - 1) : CharAt(s, i) = c})

\* str(e) of a json.JSONDecodeError: "msg: line L column C (char P)"
JSONDecodeError(msg, doc, pos) ==
  LET lineno == CountBefore(doc, "\n", pos) + 1
      colno == pos - RFind(Slice(doc, 0, pos), "\n")
  IN [type |-> "JSONDecodeError",
      msg |-> msg \o ": line " \o ToString(lineno) \o " column " \o ToString(colno)
                  \o " (char " \o ToString(pos) \o ")"]

json_loads(s) ==
  LET r == scan_once(s, SkipWs(s, 0))
  IN IF ~r.ok THEN Raise(JSONDecodeError(r.msg, s, r.pos))
     ELSE LET end == SkipWs(s, r.end)
          IN IF end # Len(s) THEN Raise(JSONDecodeError("Extra data", s, end))
             ELSE Return(r.val)

(***************************************************************************)
(* What the script shows to the user: st.error, st.code, st.warning.       *)
(***************************************************************************)
st_error(body) == [widget |-> "error", body |-> body]
st_code(body) == [widget |-> "code", body |-> body]
st_warning(body) == [widget |-> "warning", body |-> body]

\* the outcome of an operation: what it returns or raises, and what it shows
OpReturn(v, shown) == [raised |-> FALSE, value |-> v, shown |-> shown]
OpRaise(e, shown) == [raised |-> TRUE, exc |-> e, shown |-> shown]

\* the first subscript obj[k], k in keys (in order), that raises; keys = <<>> : none
RECURSIVE FirstFailure(_, _)
FirstFailure(obj, keys) ==
  IF keys = <<>> THEN Return(None)
  ELSE LET item == Subscript(obj, Head(keys))
       IN IF item.raised THEN item ELSE FirstFailure(obj, Tail(keys))

(***************************************************************************)
(* The answer of the model endpoint to client.chat.completions.create:     *)
(* [status |-> "ok", content |-> text] or [status |-> "error", exc |-> e]. *)
(* encode_image opens the staged file first.                               *)
(***************************************************************************)
FileNotFoundError == [type |-> "FileNotFoundError",
                      msg |-> "[Errno 2] No such file or directory: 'temp_image.jpg'"]

encode_image(image_exists) ==
  IF image_exists THEN Return("base64") ELSE Raise(FileNotFoundError)

(***************************************************************************)
(* DfXAnalyzer.generate_object_description                                 *)
(***************************************************************************)
ObjectDescriptionFields ==
  <<"general_description", "components", "dimensions", "materials",
    "key_features", "intended_use">>

ObjectDescription(results) ==
  LET missing == FirstFailure(results, ObjectDescriptionFields)
  IN IF missing.raised THEN missing
  ELSE Return([t |-> "ObjectDescription",
               general_description |-> DictGet(results, "general_description"),
               components |-> DictGet(results, "components"),
               dimensions |-> DictGet(results, "dimensions"),
               materials |-> DictGet(results, "materials"),
               key_features |-> DictGet(results, "key_features"),
               intended_use |-> DictGet(results, "intended_use")])

generate_object_description(image_exists, response) ==
  IF encode_image(image_exists).raised THEN OpRaise(FileNotFoundError, <<>>)
  ELSE IF response.status = "error" THEN OpRaise(response.exc, <<>>)
  ELSE
  Only({
    IF json_str.raised
    THEN OpReturn(None, <<st_error("Error generating object description: " \o json_str.exc.msg)>>)
    ELSE
    Only({
      IF results.raised
      THEN OpReturn(None, <<st_error("Error generating object description: " \o results.exc.msg)>>)
      ELSE
      Only({
        IF record.raised
        THEN OpReturn(None, <<st_error("Error generating object description: " \o record.exc.msg)>>)
        ELSE OpReturn(record.value, <<>>)
        : record \in {ObjectDescription(results.value)}})
      : results \in {json_loads(json_str.value)}})
    : json_str \in {clean_json_response(response.content)}})

(***************************************************************************)
(* DfXAnalyzer.generate_brainstorming                                      *)
(***************************************************************************)
DesignBrainstormingFields ==
  <<"components_alternatives", "material_options", "ergonomic_considerations",
    "market_analysis", "hazard_analysis", "innovation_opportunities",
    "design_tradeoffs">>

DesignBrainstorming(results) ==
  LET missing == FirstFailure(results, DesignBrainstormingFields)
  IN IF missing.raised THEN missing
  ELSE Return([t |-> "DesignBrainstorming",
               components_alternatives |-> DictGet(results, "components_alternatives"),
               material_options |-> DictGet(results, "material_options"),
               ergonomic_considerations |-> DictGet(results, "ergonomic_considerations"),
               market_analysis |-> DictGet(results, "market_analysis"),
               hazard_analysis |-> DictGet(results, "hazard_analysis"),
               innovation_opportunities |-> DictGet(results, "innovation_opportunities"),
               design_tradeoffs |-> DictGet(results, "design_tradeoffs")])

generate_brainstorming(image_exists, response) ==
  IF encode_image(image_exists).raised THEN OpRaise(FileNotFoundError, <<>>)
  ELSE IF response.status = "error" THEN OpRaise(response.exc, <<>>)
  ELSE
  Only({
    IF json_str.raised
    THEN OpReturn(None, <<st_error("Error generating brainstorming analysis: " \o json_str.exc.msg)>>)
    ELSE
    Only({
      IF results.raised
      THEN OpReturn(None, <<st_error("Error generating brainstorming analysis: " \o results.exc.msg)>>)
      ELSE
      Only({
        IF record.raised
        THEN OpReturn(None, <<st_error("Error generating brainstorming analysis: " \o record.exc.msg)>>)
        ELSE OpReturn(record.value, <<>>)
        : record \in {DesignBrainstorming(results.value)}})
      : results \in {json_loads(json_str.value)}})
    : json_str \in {clean_json_response(response.content)}})

(***************************************************************************)
(* DfXAnalyzer.analyze_specifications                                      *)
(***************************************************************************)
DfXSpecificationFields ==
  <<"specifications", "requirements", "constraints", "recommendations">>

DfXSpecification(category, data) ==
  LET missing == FirstFailure(data, DfXSpecificationFields)
  IN IF missing.raised THEN missing
  ELSE Return([t |-> "DfXSpecification",
               category |-> category,
               specifications |-> DictGet(data, "specifications"),
               requirements |-> DictGet(data, "requirements"),
               constraints |-> DictGet(data, "constraints"),
               recommendations |-> DictGet(data, "recommendations")])

\* for category, data in results.items(): ... analysis_results[category] = spec
\* the loop from the i-th item on; an exception leaves the loop with the
\* entries stored so far
RECURSIVE SpecificationLoop(_, _, _)
SpecificationLoop(items, i, analysis_results) ==
  IF i > Len(items) THEN [analysis_results |-> analysis_results, raised |-> FALSE]
  ELSE LET spec == DfXSpecification(items[i][1], items[i][2])
       IN IF spec.raised
          THEN [analysis_results |-> analysis_results, raised |-> TRUE, exc |-> spec.exc]
          ELSE SpecificationLoop(items, i + 1,
                                 DictSet(analysis_results, items[i][1], spec.value))

analyze_specifications(image_exists, criteria, response) ==
  IF encode_image(image_exists).raised THEN OpRaise(FileNotFoundError, <<>>)
  ELSE IF response.status = "error" THEN OpRaise(response.exc, <<>>)
  ELSE
  Only({
    IF json_str.raised
    THEN OpReturn(PyDict(<<>>), <<st_error("Unexpected error: " \o json_str.exc.msg)>>)
    ELSE
    Only({
      IF results.raised
      THEN OpReturn(PyDict(<<>>),
                    <<st_error("Error parsing GPT response: " \o results.exc.msg),
                      st_code(response.content)>>)
      ELSE
      Only({
        IF loop.raised
        THEN OpReturn(loop.analysis_results,
                      <<st_error("Unexpected error: " \o loop.exc.msg)>>)
        ELSE OpReturn(loop.analysis_results, <<>>)
        : loop \in {SpecificationLoop(results.value.v, 1, PyDict(<<>>))}})
      : results \in {json_loads(json_str.value)}})
    : json_str \in {clean_json_response(response.content)}})

(***************************************************************************)
(* json.dumps(obj, indent=indent): indent = -1 stands for indent=None.     *)
(***************************************************************************)
RECURSIVE Spaces(_)
Spaces(n) == IF n <= 0 THEN "" ELSE " " \o Spaces(n - 1)

RECURSIVE json_dumps(_, _, _)
RECURSIVE DumpItems(_, _, _, _, _)

\* the items of a list (isdict = FALSE) or dict (isdict = TRUE) from the i-th on
DumpItems(items, isdict, i, indent, level) ==
  IF i > Len(items) THEN ""
  ELSE LET lead == IF indent < 0 THEN (IF i = 1 THEN "" ELSE " ")
                   ELSE "\n" \o Spaces(indent * (level + 1))
           item == IF isdict
                   THEN "\"" \o items[i][1] \o "\": "
                        \o json_dumps(items[i][2], indent, level + 1)
                   ELSE json_dumps(items[i], indent, level + 1)
           sep == IF i < Len(items) THEN "," ELSE ""
       IN lead \o item \o sep \o DumpItems(items, isdict, i + 1, indent, level)

json_dumps(obj, indent, level) ==
  LET close == IF indent < 0 THEN "" ELSE "\n" \o Spaces(indent * level)
  IN CASE obj.t = "str" -> "\"" \o obj.v \o "\""
       [] obj.t = "None" -> "null"
       [] obj.t = "bool" -> (IF obj.v THEN "true" ELSE "false")
       [] obj.t = "list" ->
            IF obj.v = <<>> THEN "[]"
            ELSE "[" \o DumpItems(obj.v, FALSE, 1, indent, level) \o close \o "]"
       [] obj.t = "dict" ->
            IF obj.v = <<>> THEN "{}"
            ELSE "{" \o DumpItems(obj.v, TRUE, 1, indent, level) \o close \o "}"

(***************************************************************************)
(* The presentation of the records in the three tabs of main().  Only      *)
(* whether a tab's rendering completes matters to the run: a value of the  *)
(* wrong shape raises out of main().                                       *)
(***************************************************************************)
AttributeError(msg) == [type |-> "AttributeError", msg |-> msg]

\* for x in v
Iterable(v) == v.t \in {"list", "str", "dict"}

\* the items a for loop over v visits
Elements(v) ==
  IF v.t = "list" THEN v.v
  ELSE IF v.t = "dict" THEN [i \in 1..Len(v.v) |-> PyStr(v.v[i][1])]
  ELSE [i \in 1..Len(v.v) |-> PyStr(CharAt(v.v, i - 1))]

\* for g in groups: for name, items in g.items(): for x in items
GroupsRender(groups) ==
  /\ Iterable(groups)
  /\ \A i \in 1..Len(Elements(groups)) :
       LET g == Elements(groups)[i]
       IN g.t = "dict" /\ \A j \in 1..Len(g.v) : Iterable(g.v[j][2])

\* for x in mapping[key]
ListAtRenders(mapping, key) ==
  ~Subscript(mapping, key).raised /\ Iterable(Subscript(mapping, key).value)

render_object_description(object_desc) ==
  IF /\ Iterable(object_desc.components)
     /\ object_desc.dimensions.t = "dict"
     /\ Iterable(object_desc.materials)
     /\ Iterable(object_desc.key_features)
     /\ Iterable(object_desc.intended_use)
  THEN Return(None)
  ELSE Raise(AttributeError("object description of an unexpected shape"))

render_brainstorming(brainstorming) ==
  IF /\ GroupsRender(brainstorming.components_alternatives)
     /\ GroupsRender(brainstorming.material_options)
     /\ GroupsRender(brainstorming.ergonomic_considerations)
     /\ ListAtRenders(brainstorming.market_analysis, "competitors")
     /\ ListAtRenders(brainstorming.market_analysis, "market_gaps")
     /\ ListAtRenders(brainstorming.market_analysis, "user_needs")
     /\ GroupsRender(brainstorming.hazard_analysis)
     /\ Iterable(brainstorming.innovation_opportunities)
     /\ GroupsRender(brainstorming.design_tradeoffs)
  THEN Return(None)
  ELSE Raise(AttributeError("brainstorming of an unexpected shape"))

render_specifications(specifications) ==
  IF \A i \in 1..Len(specifications.v) :
       LET spec == specifications.v[i][2]
       IN /\ Iterable(spec.specifications)
          /\ Iterable(spec.requirements)
          /\ Iterable(spec.constraints)
          /\ Iterable(spec.recommendations)
  THEN Return(None)
  ELSE Raise(TypeError("specification of an unexpected shape"))

(***************************************************************************)
(* The export document assembled by main() from the three results.         *)
(***************************************************************************)
\* the loop of the export with the mapping replaced at each category instead of
\* being added to: only the last category is left
ExportSpecificationsOverwriting(items, i, out) ==
  IF Len(items) = 0 THEN out
  ELSE LET spec == items[Len(items)][2]
       IN PyDict(<< <<items[Len(items)][1],
                      PyDict(<< <<"specifications", spec.specifications>>,
                                <<"requirements", spec.requirements>>,
                                <<"constraints", spec.constraints>>,
                                <<"recommendations", spec.recommendations>> >>)>> >>)

RECURSIVE ExportSpecifications(_, _, _)
ExportSpecifications(items, i, out) ==
  IF i > Len(items) THEN out
  ELSE LET spec == items[i][2]
       IN ExportSpecifications(items, i + 1,
            DictSet(out, items[i][1],
                    PyDict(<< <<"specifications", spec.specifications>>,
                              <<"requirements", spec.requirements>>,
                              <<"constraints", spec.constraints>>,
                              <<"recommendations", spec.recommendations>> >>)))

export_document(object_desc, brainstorming, specifications) ==
  IF object_desc = None
  THEN Raise(AttributeError("'NoneType' object has no attribute 'general_description'"))
  ELSE IF brainstorming = None
  THEN Raise(AttributeError("'NoneType' object has no attribute 'components_alternatives'"))
  ELSE Return(PyDict(<<
    <<"object_description", PyDict(<<
        <<"general_description", object_desc.general_description>>,
        <<"components", object_desc.components>>,
        <<"dimensions", object_desc.dimensions>>,
        <<"materials", object_desc.materials>>,
        <<"key_features", object_desc.key_features>>,
        <<"intended_use", object_desc.intended_use>> >>)>>,
    <<"brainstorming_analysis", PyDict(<<
        <<"components_alternatives", brainstorming.components_alternatives>>,
        <<"material_options", brainstorming.material_options>>,
        <<"ergonomic_considerations", brainstorming.ergonomic_considerations>>,
        <<"market_analysis", brainstorming.market_analysis>>,
        <<"hazard_analysis", brainstorming.hazard_analysis>>,
        <<"innovation_opportunities", brainstorming.innovation_opportunities>>,
        <<"design_tradeoffs", brainstorming.design_tradeoffs>> >>)>>,
    <<"specifications", ExportSpecifications(specifications.v, 1, PyDict(<<>>))>> >>))

(***************************************************************************)
(* The answers the model endpoint can give.  An answer that carries a JSON *)
(* value is the text prefix + json.dumps(value) + suffix; the script reads *)
(* only its content.                                                       *)
(***************************************************************************)
NoJson == [t |-> "absent"]

Reply(prefix, json, suffix) ==
  [status |-> "ok", prefix |-> prefix, json |-> json, suffix |-> suffix,
   content |-> prefix \o json_dumps(json, -1, 0) \o suffix]

Prose(text) ==
  [status |-> "ok", prefix |-> text, json |-> NoJson, suffix |-> "", content |-> text]

EndpointFailure(type, msg) == [status |-> "error", exc |-> [type |-> type, msg |-> msg]]

EndpointFailures ==
  {EndpointFailure("APIConnectionError", "Connection error."),
   EndpointFailure("RateLimitError", "Error code: 429")}

Strs(items) == PyList([i \in 1..Len(items) |-> PyStr(items[i])])
Group(name, items) == PyDict(<< <<name, Strs(items)>> >>)

Without(d, k) == PyDict(SelectSeq(d.v, LAMBDA p : p[1] # k))
Renamed(d, k, k2) ==
  PyDict([i \in 1..Len(d.v) |-> IF d.v[i][1] = k THEN <<k2, d.v[i][2]>> ELSE d.v[i]])

CupDescription ==
  PyDict(<< <<"general_description", PyStr("A cup")>>,
            <<"components", Strs(<<"handle", "body">>)>>,
            <<"dimensions", PyDict(<< <<"height", PyStr("10cm")>> >>)>>,
            <<"materials", Strs(<<"ceramic">>)>>,
            <<"key_features", Strs(<<"insulated">>)>>,
            <<"intended_use", Strs(<<"beverage holding">>)>> >>)

ObjectResponses ==
  {Reply("", CupDescription, ""),
   Reply("Here is the json:\n", CupDescription, "\nHope this helps."),
   Reply("", DictSet(CupDescription, "general_description",
                     PyStr("A cup with a json label")), ""),
   Reply("", DictSet(CupDescription, "dimensions", Strs(<<"10cm">>)), ""),
   Reply("", Without(CupDescription, "intended_use"), ""),
   Reply("", Renamed(CupDescription, "general_description",
                     "general_jsondescription"), ""),
   Prose("I cannot analyze this image."),
   Prose("{\"general_description\": \"A cup"),
   Prose("{\"general_description\": \"A cup\", \"dimensions\": {\"height\": \"10cm\"}, \"compo")}
  \cup EndpointFailures

CupBrainstorming ==
  PyDict(<< <<"components_alternatives", PyList(<<Group("handle", <<"loop", "knob">>)>>)>>,
            <<"material_options", PyList(<<Group("body", <<"steel">>)>>)>>,
            <<"ergonomic_considerations", PyList(<<Group("grip", <<"wider">>)>>)>>,
            <<"market_analysis",
              PyDict(<< <<"competitors", Strs(<<"mug">>)>>,
                        <<"market_gaps", Strs(<<"travel">>)>>,
                        <<"user_needs", Strs(<<"spill proof">>)>> >>)>>,
            <<"hazard_analysis", PyList(<<Group("heat", <<"burns">>)>>)>>,
            <<"innovation_opportunities", Strs(<<"smart lid">>)>>,
            <<"design_tradeoffs", PyList(<<Group("weight", <<"thin wall">>)>>)>> >>)

BrainstormingResponses ==
  {Reply("", CupBrainstorming, ""),
   Reply("", DictSet(CupBrainstorming, "market_analysis", Strs(<<"mug", "glass">>)), ""),
   Reply("", Without(CupBrainstorming, "design_tradeoffs"), ""),
   Prose("Sorry, no ideas."),
   Prose("{\"components_alternatives\": [{\"handle\": [\"loop\"]}], \"material")}
  \cup EndpointFailures

FullCategory(word) ==
  PyDict(<< <<"specifications", Strs(<<word \o " spec">>)>>,
            <<"requirements", Strs(<<word \o " requirement">>)>>,
            <<"constraints", Strs(<<word \o " constraint">>)>>,
            <<"recommendations", Strs(<<word \o " recommendation">>)>> >>)

SpecificationResponses ==
  {Reply("", PyDict(<< <<"safety", FullCategory("guard")>>,
                       <<"cost", FullCategory("budget")>> >>), ""),
   Reply("", PyDict(<< <<"safety", FullCategory("guard")>> >>), ""),
   Reply("", PyDict(<< <<"safety", FullCategory("json")>> >>), ""),
   Reply("", PyDict(<< <<"safety", Without(FullCategory("guard"), "constraints")>>,
                       <<"cost", FullCategory("budget")>> >>), ""),
   Reply("", PyDict(<< <<"cost", FullCategory("budget")>>,
                       <<"safety", Without(FullCategory("guard"), "constraints")>> >>), ""),
   Reply("", PyDict(<<>>), ""),
   Prose("No specifications available."),
   Prose("{\"safety\": {\"specifications\": [\"guard spec\"]}, \"cost\": {\"spec")}
  \cup EndpointFailures

\* the keys of DfXAnalyzer.categories and of dfx_options
dfx_options ==
  {"manufacturability", "reliability", "sustainability", "usability", "cost",
   "safety", "performance", "maintainability", "scalability", "compliance"}

\* the selections of the multiselect the model explores
Selections == SUBSET ({"safety", "cost"} \cap dfx_options)

(***************************************************************************)
(* The session: one run of main() per user interaction.                    *)
(***************************************************************************)
VARIABLES
  pc,                  \* where the current run of main() stands
  run,                 \* the number of the current run
  api_key,             \* whether the key field holds a key
  uploaded_file,       \* whether the uploader holds a file
  selected_categories, \* the value of the multiselect
  clicked,             \* whether this run was started by the export button
  button_offered,      \* whether the page shows the export button
  temp_image,          \* whether temp_image.jpg exists
  writes,              \* how often this run wrote temp_image.jpg
  removes,             \* how often this run removed temp_image.jpg
  calls,               \* the analysis operations this run called
  response,            \* the endpoint's answer to the last request
  object_desc,         \* main()'s local object_desc
  brainstorming,       \* main()'s local brainstorming
  specifications,      \* main()'s local specifications
  shown,               \* the failures this run showed to the user
  export_data,         \* the download this run offered
  raised,              \* the exception that ended this run of main()
  cleaned,             \* clean_json_response applied to the answer
  recleaned            \* clean_json_response applied to its own output

vars ==
  <<pc, run, api_key, uploaded_file, selected_categories, clicked, button_offered,
    temp_image, writes, removes, calls, response, object_desc, brainstorming,
    specifications, shown, export_data, raised, cleaned, recleaned>>

widgets == <<api_key, uploaded_file, selected_categories, clicked>>
results == <<object_desc, brainstorming, specifications>>
sanitizer == <<cleaned, recleaned>>

Unbound == [t |-> "Unbound"]
NoException == [type |-> "NoException", msg |-> ""]
NoResponse == [status |-> "none"]
NotRun == [pending |-> TRUE]

Call(op, answer) == [op |-> op, image |-> temp_image, status |-> answer.status]

Init ==
  /\ pc = "start"
  /\ run = 1
  /\ api_key \in BOOLEAN
  /\ uploaded_file \in BOOLEAN
  /\ selected_categories \in Selections
  /\ clicked = FALSE
  /\ button_offered = FALSE
  /\ temp_image = FALSE
  /\ writes = 0
  /\ removes = 0
  /\ calls = <<>>
  /\ response = NoResponse
  /\ object_desc = Unbound
  /\ brainstorming = Unbound
  /\ specifications = Unbound
  /\ shown = <<>>
  /\ export_data = Unbound
  /\ raised = NoException
  /\ cleaned = NotRun
  /\ recleaned = NotRun

\* main() up to the tabs: the widgets, the staging of the upload
Stage ==
  /\ pc = "start"
  /\ button_offered' = FALSE
  /\ IF ~api_key
     THEN /\ shown' = Append(shown, st_warning("Please enter your OpenAI API key to proceed."))
          /\ pc' = "done"
          /\ UNCHANGED <<temp_image, writes>>
     ELSE IF uploaded_file /\ selected_categories # {}
     THEN /\ temp_image' = TRUE
          /\ writes' = writes + 1
          /\ pc' = "tab1"
          /\ UNCHANGED shown
     ELSE /\ pc' = "done"
          /\ UNCHANGED <<temp_image, writes, shown>>
  /\ UNCHANGED <<run, widgets, removes, calls, response, results, export_data,
                 raised, sanitizer>>

\* with tab1: object_desc = analyzer.generate_object_description(...)
Tab1 ==
  /\ pc = "tab1"
  /\ \E answer \in ObjectResponses :
     \E r \in {generate_object_description(temp_image, answer)} :
          /\ response' = answer
          /\ calls' = Append(calls, Call("generate_object_description", answer))
          /\ shown' = shown \o r.shown
          /\ IF r.raised
             THEN raised' = r.exc /\ pc' = "done" /\ UNCHANGED object_desc
             ELSE /\ object_desc' = r.value
                  /\ IF r.value # None /\ render_object_description(r.value).raised
                     THEN raised' = render_object_description(r.value).exc /\ pc' = "done"
                     ELSE pc' = "tab2" /\ UNCHANGED raised
  /\ UNCHANGED <<run, widgets, button_offered, temp_image, writes, removes,
                 brainstorming, specifications, export_data, sanitizer>>

\* with tab2: brainstorming = analyzer.generate_brainstorming(...)
Tab2 ==
  /\ pc = "tab2"
  /\ \E answer \in BrainstormingResponses :
     \E r \in {generate_brainstorming(temp_image, answer)} :
          /\ response' = answer
          /\ calls' = Append(calls, Call("generate_brainstorming", answer))
          /\ shown' = shown \o r.shown
          /\ IF r.raised
             THEN raised' = r.exc /\ pc' = "done" /\ UNCHANGED brainstorming
             ELSE /\ brainstorming' = r.value
                  /\ IF r.value # None /\ render_brainstorming(r.value).raised
                     THEN raised' = render_brainstorming(r.value).exc /\ pc' = "done"
                     ELSE pc' = "tab3" /\ UNCHANGED raised
  /\ UNCHANGED <<run, widgets, button_offered, temp_image, writes, removes,
                 object_desc, specifications, export_data, sanitizer>>

\* with tab3: specifications = analyzer.analyze_specifications(...)
Tab3 ==
  /\ pc = "tab3"
  /\ \E answer \in SpecificationResponses :
     \E r \in {analyze_specifications(temp_image, selected_categories, answer)} :
          /\ response' = answer
          /\ calls' = Append(calls, Call("analyze_specifications", answer))
          /\ shown' = shown \o r.shown
          /\ IF r.raised
             THEN raised' = r.exc /\ pc' = "done" /\ UNCHANGED specifications
             ELSE /\ specifications' = r.value
                  /\ IF r.value.v # <<>> /\ render_specifications(r.value).raised
                     THEN raised' = render_specifications(r.value).exc /\ pc' = "done"
                     ELSE pc' = "export" /\ UNCHANGED raised
  /\ UNCHANGED <<run, widgets, button_offered, temp_image, writes, removes,
                 object_desc, brainstorming, export_data, sanitizer>>

\* if st.sidebar.button("Export Complete Analysis"): ... download_button(...)
Export ==
  /\ pc = "export"
  /\ button_offered' = TRUE
  /\ IF ~clicked
     THEN pc' = "cleanup" /\ UNCHANGED <<export_data, raised>>
     ELSE \E doc \in {export_document(object_desc, brainstorming, specifications)} :
             IF doc.raised
             THEN raised' = doc.exc /\ pc' = "done" /\ UNCHANGED export_data
             ELSE /\ export_data' = [document |-> doc.value,
                                     data |-> json_dumps(doc.value, 2, 0),
                                     file_name |-> "dfx_complete_analysis.json"]
                  /\ pc' = "cleanup"
                  /\ UNCHANGED raised
  /\ UNCHANGED <<run, widgets, temp_image, writes, removes, calls, response,
                 results, shown, sanitizer>>

\* os.remove("temp_image.jpg")
Cleanup ==
  /\ pc = "cleanup"
  /\ IF temp_image
     THEN temp_image' = FALSE /\ removes' = removes + 1 /\ UNCHANGED raised
     ELSE raised' = FileNotFoundError /\ UNCHANGED <<temp_image, removes>>
  /\ pc' = "done"
  /\ UNCHANGED <<run, widgets, button_offered, writes, calls, response, results,
                 shown, export_data, sanitizer>>

\* a user interaction starts the next run of main(): a click on the export
\* button the page shows, or a change of the widgets
Rerun ==
  /\ pc = "done"
  /\ run < MaxRuns
  /\ run' = run + 1
  /\ pc' = "start"
  /\ \/ button_offered /\ clicked' = TRUE
        /\ UNCHANGED <<api_key, uploaded_file, selected_categories>>
     \/ /\ clicked' = FALSE
        /\ api_key' \in BOOLEAN
        /\ uploaded_file' \in BOOLEAN
        /\ selected_categories' \in Selections
  /\ writes' = 0
  /\ removes' = 0
  /\ calls' = <<>>
  /\ response' = NoResponse
  /\ object_desc' = Unbound
  /\ brainstorming' = Unbound
  /\ specifications' = Unbound
  /\ shown' = <<>>
  /\ export_data' = Unbound
  /\ raised' = NoException
  /\ UNCHANGED <<button_offered, temp_image, sanitizer>>

Next == Stage \/ Tab1 \/ Tab2 \/ Tab3 \/ Export \/ Cleanup \/ Rerun

Spec == Init /\ [][Next]_vars

(***************************************************************************)
(* The sanitizer on its own: clean_json_response applied to a text, and    *)
(* again to its own output.  The texts are the concatenations of up to     *)
(* MaxPieces pieces, and the answers prefix + JSON object + suffix.        *)
(***************************************************************************)
Pieces == {"{", "}", "js", "on", "json", " "}

RECURSIVE Join(_)
Join(pieces) == IF pieces = <<>> THEN "" ELSE Head(pieces) \o Join(Tail(pieces))

PieceTexts == {Join(p) : p \in UNION {[1..n -> Pieces] : n \in 0..MaxPieces}}

Prefixes == {"", "Here is the json:\n", "Result {draft}: "}
Suffixes == {"", "\nHope this helps.", " (end of {answer})"}
SmallObjects ==
  {PyDict(<< <<"name", PyStr("cup")>> >>),
   PyDict(<< <<"format", PyStr("json file")>> >>),
   PyDict(<< <<"dimensions", PyDict(<< <<"height", PyStr("10cm")>> >>)>> >>)}

SanitizerAnswers ==
  {Prose(t) : t \in PieceTexts}
  \cup {Reply(p, j, q) : p \in Prefixes, j \in SmallObjects, q \in Suffixes}

SanitizerInit ==
  /\ pc = "sanitizer"
  /\ run = 1
  /\ api_key = FALSE
  /\ uploaded_file = FALSE
  /\ selected_categories = {}
  /\ clicked = FALSE
  /\ button_offered = FALSE
  /\ temp_image = FALSE
  /\ writes = 0
  /\ removes = 0
  /\ calls = <<>>
  /\ response \in SanitizerAnswers
  /\ object_desc = Unbound
  /\ brainstorming = Unbound
  /\ specifications = Unbound
  /\ shown = <<>>
  /\ export_data = Unbound
  /\ raised = NoException
  /\ cleaned = NotRun
  /\ recleaned = NotRun

session ==
  <<pc, run, widgets, button_offered, temp_image, writes, removes, calls, response,
    results, shown, export_data, raised>>

Clean ==
  /\ pc = "sanitizer"
  /\ cleaned = NotRun
  /\ cleaned' = clean_json_response(response.content)
  /\ UNCHANGED <<session, recleaned>>

Reclean ==
  /\ pc = "sanitizer"
  /\ cleaned # NotRun
  /\ ~cleaned.raised
  /\ recleaned = NotRun
  /\ recleaned' = clean_json_response(cleaned.value)
  /\ UNCHANGED <<session, cleaned>>

SanitizerNext == Clean \/ Reclean

SanitizerSpec == SanitizerInit /\ [][SanitizerNext]_vars

(***************************************************************************)
(* Vocabulary of the properties.                                           *)
(***************************************************************************)
\* the operation the run called last, "" before the first call
LastOp == IF calls = <<>> THEN "" ELSE calls[Len(calls)].op

\* the run is in the state the call of op left, and the endpoint had answered
Answered(op) == LastOp = op /\ response.status = "ok"

\* the answer is one JSON object and nothing else
BareObject == response.json # NoJson /\ response.json.t = "dict"
                /\ response.prefix = "" /\ response.suffix = ""

IsStr(v) == v.t = "str"
IsStrList(v) == v.t = "list" /\ \A i \in 1..Len(v.v) : IsStr(v.v[i])
IsStrDict(v) == v.t = "dict" /\ \A i \in 1..Len(v.v) : IsStr(v.v[i][2])
HasKeys(d, keys) == d.t = "dict" /\ \A i \in 1..Len(keys) : DictHas(d, keys[i])

\* the value of the instructed ObjectDescription shape
ObjectDescriptionShape(d) ==
  /\ d.t = "dict"
  /\ DictKeys(d) = ObjectDescriptionFields
  /\ IsStr(DictGet(d, "general_description"))
  /\ IsStrList(DictGet(d, "components"))
  /\ IsStrDict(DictGet(d, "dimensions"))
  /\ IsStrList(DictGet(d, "materials"))
  /\ IsStrList(DictGet(d, "key_features"))
  /\ IsStrList(DictGet(d, "intended_use"))

\* the text extracted from the answer is malformed JSON
ParseFailure ==
  /\ ~clean_json_response(response.content).raised
  /\ json_loads(clean_json_response(response.content).value).raised

\* some failure shown to the user has the text in it
ShownWith(text) == \E i \in 1..Len(shown) : Contains(shown[i].body, text)

\* the operation op showed a failure
FailureShown(op) ==
  LET told == CASE op = "generate_object_description" ->
                     {"Error generating object description: "}
                [] op = "generate_brainstorming" ->
                     {"Error generating brainstorming analysis: "}
                [] op = "analyze_specifications" ->
                     {"Error parsing GPT response: ", "Unexpected error: "}
  IN \E i \in 1..Len(shown) :
       shown[i].widget = "error" /\ \E t \in told : StartsWithAt(shown[i].body, t, 0)

\* the local variable that holds the result of op
ResultOf(op) ==
  CASE op = "generate_object_description" -> object_desc
    [] op = "generate_brainstorming" -> brainstorming
    [] op = "analyze_specifications" -> specifications

Operations ==
  <<"generate_object_description", "generate_brainstorming", "analyze_specifications">>

(***************************************************************************)
(* C1: when the request of an analysis operation fails at the endpoint,    *)
(* the operation reports the failure and returns no record instead of      *)
(* letting the error out, and the run goes on to the remaining operations. *)
(***************************************************************************)
C1_EndpointFailureIsContained ==
  (calls # <<>> /\ response.status = "error") =>
    /\ raised = NoException
    /\ FailureShown(LastOp)
    /\ ResultOf(LastOp) \in {None, PyDict(<<>>)}
    /\ pc # "done"

(***************************************************************************)
(* C2: when the answer to analyze_specifications is a JSON object, every   *)
(* category of it whose sub-object has the four keys is in the result,     *)
(* wherever a category that fails projection stands in the answer.         *)
(***************************************************************************)
C2_FailureScopedToCategory ==
  (Answered("analyze_specifications") /\ BareObject /\ specifications # Unbound) =>
    \A i \in 1..Len(response.json.v) :
      HasKeys(response.json.v[i][2], DfXSpecificationFields)
        => DictHas(specifications, response.json.v[i][1])

(***************************************************************************)
(* C3: whenever the export action is invoked, the object description and   *)
(* the brainstorming record are present and the specification mapping has  *)
(* been produced.                                                          *)
(***************************************************************************)
C3_ExportOnlyWithAllResults ==
  (pc = "export" /\ clicked) =>
    /\ object_desc \notin {None, Unbound}
    /\ brainstorming \notin {None, Unbound}
    /\ specifications # Unbound

(***************************************************************************)
(* C4: an answer that is exactly one JSON object of the ObjectDescription  *)
(* shape comes back from generate_object_description as a record whose six *)
(* fields are the answer's values, unchanged.                              *)
(***************************************************************************)
C4_DescriptionRoundTrip ==
  (Answered("generate_object_description") /\ BareObject
     /\ ObjectDescriptionShape(response.json)) =>
    /\ object_desc \notin {None, Unbound}
    /\ \A i \in 1..Len(ObjectDescriptionFields) :
         Subscript(response.json, ObjectDescriptionFields[i]).value
           = CASE i = 1 -> object_desc.general_description
               [] i = 2 -> object_desc.components
               [] i = 3 -> object_desc.dimensions
               [] i = 4 -> object_desc.materials
               [] i = 5 -> object_desc.key_features
               [] i = 6 -> object_desc.intended_use

(***************************************************************************)
(* C5: clean_json_response applied to its own output returns without error *)
(* and returns that output unchanged.                                      *)
(***************************************************************************)
C5_SanitizerIdempotent ==
  (recleaned # NotRun) => (~recleaned.raised /\ recleaned.value = cleaned.value)

(***************************************************************************)
(* C6: of an answer prose + JSON object + prose, clean_json_response       *)
(* returns exactly the JSON object.                                        *)
(***************************************************************************)
C6_ExtractsOnlyTheObject ==
  (response.status = "ok" /\ response.json # NoJson /\ cleaned # NotRun) =>
    (~cleaned.raised /\ cleaned.value = json_dumps(response.json, -1, 0))

\* what C7 says of one operation and the fields of its record
NoPartialRecord(op, fields) ==
  (Answered(op) /\ ResultOf(op) # Unbound) =>
    /\ ResultOf(op) # None =>
         /\ response.json # NoJson
         /\ HasKeys(response.json, fields)
    /\ (Find(response.content, "{") = -1 \/ Find(response.content, "}") = -1)
         => (ResultOf(op) = None /\ FailureShown(op))
    /\ (response.json # NoJson /\ ~HasKeys(response.json, fields))
         => (ResultOf(op) = None /\ FailureShown(op))

(***************************************************************************)
(* C7: generate_object_description and generate_brainstorming return None  *)
(* or a record every field of which comes from the answer's key of that    *)
(* name; an answer without a brace, and an answer whose object lacks a     *)
(* required key, gives None and a shown failure.                           *)
(***************************************************************************)
C7_NoPartialRecord ==
  /\ NoPartialRecord("generate_object_description", ObjectDescriptionFields)
  /\ NoPartialRecord("generate_brainstorming", DesignBrainstormingFields)

(***************************************************************************)
(* C8: when the answer to analyze_specifications is a JSON object whose    *)
(* keys are among the requested categories and whose sub-objects have the  *)
(* four keys, the call does not fail, the result has exactly those keys,   *)
(* and the entry under c has category c and the answer's four lists.       *)
(***************************************************************************)
C8_SuppliedCategoriesOnly ==
  (Answered("analyze_specifications") /\ BareObject /\ specifications # Unbound
     /\ \A i \in 1..Len(response.json.v) :
          /\ response.json.v[i][1] \in selected_categories
          /\ HasKeys(response.json.v[i][2], DfXSpecificationFields)) =>
    /\ ~FailureShown("analyze_specifications")
    /\ DictKeys(specifications) = DictKeys(response.json)
    /\ \A i \in 1..Len(response.json.v) :
         LET c == response.json.v[i][1]
             data == response.json.v[i][2]
             spec == DictGet(specifications, c)
         IN /\ spec.category = c
            /\ spec.specifications = DictGet(data, "specifications")
            /\ spec.requirements = DictGet(data, "requirements")
            /\ spec.constraints = DictGet(data, "constraints")
            /\ spec.recommendations = DictGet(data, "recommendations")

(***************************************************************************)
(* C9: when the text extracted from the answer is malformed JSON, what the *)
(* operation shows to the user has the raw answer in it, for each of the   *)
(* three operations.                                                       *)
(***************************************************************************)
C9_ParseFailureShowsRawText ==
  \A i \in 1..Len(Operations) :
    (Answered(Operations[i]) /\ ParseFailure) => ShownWith(response.content)

(***************************************************************************)
(* C10: a run that stages the upload writes temp_image.jpg once, has it in *)
(* place at each of the three analysis calls, and has removed it once when *)
(* the run is over, whether or not an operation or the export failed.      *)
(***************************************************************************)
C10_StagedImageLifecycle ==
  /\ (pc \in {"tab1", "tab2", "tab3", "export", "cleanup"}) => (writes = 1 /\ temp_image)
  /\ \A i \in 1..Len(calls) : calls[i].image
  /\ (pc = "done" /\ writes > 0) =>
       /\ writes = 1
       /\ [i \in 1..Len(calls) |-> calls[i].op] = Operations
       /\ removes = 1
       /\ ~temp_image

\* the three results of the run are bound and none of them is None
AllResultsPresent ==
  /\ object_desc \notin {None, Unbound}
  /\ brainstorming \notin {None, Unbound}
  /\ specifications \notin {None, Unbound}

\* the dict d has exactly the keys of fields, each holding that field of record
MirrorsRecord(d, record, fields) ==
  /\ d.t = "dict"
  /\ DictKeys(d) = fields
  /\ \A i \in 1..Len(fields) : DictGet(d, fields[i]) = record[fields[i]]

(***************************************************************************)
(* C11: when the export runs with all three results present, the exported  *)
(* document has exactly the keys object_description, brainstorming_analysis *)
(* and specifications; object_description and brainstorming_analysis hold  *)
(* exactly the fields of their records, each equal to the record's field;  *)
(* specifications has exactly the keys of the specification mapping, each  *)
(* holding the four lists of that category's record; and the downloaded    *)
(* text is that document.                                                  *)
(***************************************************************************)
C11_ExportMirrorsRecords ==
  (export_data # Unbound /\ AllResultsPresent) =>
    LET doc == export_data.document
        exported == DictGet(doc, "specifications")
    IN /\ DictKeys(doc) = <<"object_description", "brainstorming_analysis", "specifications">>
       /\ MirrorsRecord(DictGet(doc, "object_description"), object_desc,
                        ObjectDescriptionFields)
       /\ MirrorsRecord(DictGet(doc, "brainstorming_analysis"), brainstorming,
                        DesignBrainstormingFields)
       /\ exported.t = "dict"
       /\ DictKeys(exported) = DictKeys(specifications)
       /\ \A i \in 1..Len(specifications.v) :
            MirrorsRecord(DictGet(exported, specifications.v[i][1]),
                          specifications.v[i][2], DfXSpecificationFields)
       /\ json_loads(export_data.data) = Return(doc)

\* an export of a complete description and two categories has happened
C11_ExportedTwoCategories ==
  /\ export_data # Unbound
  /\ AllResultsPresent
  /\ object_desc.components = Strs(<<"handle", "body">>)
  /\ DictKeys(specifications) = <<"safety", "cost">>

(***************************************************************************)
(* C12: for every text, clean_json_response either fails with the error    *)
(* "No valid JSON object found in response" or returns a non-empty text    *)
(* that begins with { and ends with }, also when the last } of the text    *)
(* comes before its first {.                                               *)
(***************************************************************************)
C12_FailsOrBraceDelimited ==
  (cleaned # NotRun) =>
    IF cleaned.raised
    THEN cleaned.exc = ValueError("No valid JSON object found in response")
    ELSE /\ cleaned.value # ""
         /\ CharAt(cleaned.value, 0) = "{"
         /\ CharAt(cleaned.value, Len(cleaned.value) - 1) = "}"

====
